---- MODULE Spec2Model ----
(***************************************************************************)
(* Schema-coordinate extraction (src/src/lib.rs): ParsedSchema::new builds *)
(* a type index from a schema document (build_type_map), and              *)
(* ParsedSchema::extract_schema_coordinates walks a query document        *)
(* against that index.                                                     *)
(*                                                                         *)
(* Names are strings.  A HashMap is a function whose DOMAIN is its key     *)
(* set; a HashSet is a set.  A (possibly wrapped) type reference is a      *)
(* record [wraps, name]: wraps is the sequence of NonNullType / ListType   *)
(* wrappers from the outside in, name the NamedType at the bottom.         *)
(* The external parser is not modelled: documents are given as ASTs.       *)
(***************************************************************************)
EXTENDS Integers, Sequences, FiniteSets, TLC

VARIABLES
    schema_doc,     \* the schema AST handed to ParsedSchema::new
    type_map,       \* ParsedSchema.type_map
    pc,             \* "unparsed" | "idle" | "extracting" | "returned" | "overflow"
    query_doc,      \* the document AST of the extraction call in progress
    next_def,       \* position of the for loop over query_doc.definitions
    coordinates,    \* the call's local HashSet
    result,         \* what the last finished call returned
    seen_doc,       \* history: the document of one earlier finished call
    seen_result,    \* history: what that call returned
    stack,          \* the activations of extract_from_selection_set, innermost last
    entered         \* history: the fragment definitions the call has walked into

vars == <<schema_doc, type_map, pc, query_doc, next_def, coordinates, result,
          seen_doc, seen_result, stack, entered>>

\* Option::None for names, and the absence of a document or a result.
None == "<none>"

----------------------------------------------------------------------------
\* Bounds of the model.

\* definitions in a generated schema document
MaxSchemaDefs == 3
\* list / non-null wrappers around a named type
MaxWraps == 2
\* nesting depth of a generated selection set
MaxDepth == 2
\* operations in a generated multi-operation document
MaxOps == 2

----------------------------------------------------------------------------
\* HashMap helpers.

EmptyMap == [k \in {} |-> None]

MapInsert(m, k, v) == [j \in DOMAIN m \cup {k} |-> IF j = k THEN v ELSE m[j]]

----------------------------------------------------------------------------
\* AST constructors (graphql_parser's schema:: and query:: types).

Named(n) == [wraps |-> <<>>, name |-> n]
NonNull(t) == [wraps |-> <<"NonNullType">> \o t.wraps, name |-> t.name]
List(t) == [wraps |-> <<"ListType">> \o t.wraps, name |-> t.name]

FieldDef(n, t) == [name |-> n, field_type |-> t]

SchemaDefinition(q, m) ==
    [kind |-> "SchemaDefinition", variant |-> None, name |-> None,
     fields |-> <<>>, query |-> q, mutation |-> m]
TypeDefinition(variant, n, fs) ==
    [kind |-> "TypeDefinition", variant |-> variant, name |-> n,
     fields |-> fs, query |-> None, mutation |-> None]
TypeExtension(variant, n, fs) ==
    [kind |-> "TypeExtension", variant |-> variant, name |-> n,
     fields |-> fs, query |-> None, mutation |-> None]
DirectiveDefinition(n) ==
    [kind |-> "DirectiveDefinition", variant |-> None, name |-> n,
     fields |-> <<>>, query |-> None, mutation |-> None]

----------------------------------------------------------------------------
\* The Schema Indexer.

TypeInfo(n, fs) == [name |-> n, fields |-> fs]

RECURSIVE get_field_type(_)
get_field_type(field_type) ==
    IF field_type.wraps = <<>>
    THEN field_type.name
    ELSE get_field_type([field_type EXCEPT !.wraps = Tail(@)])

\* .iter().map(..).collect() into a HashMap: a later duplicate wins
RECURSIVE extract_fields_from_definition(_)
extract_fields_from_definition(fields) ==
    IF fields = <<>>
    THEN EmptyMap
    ELSE LET n == Len(fields)
             init == extract_fields_from_definition(SubSeq(fields, 1, n - 1))
         IN  MapInsert(init, fields[n].name, get_field_type(fields[n].field_type))

process_type_definition(type_def, tm) ==
    CASE type_def.variant \in {"Object", "Interface"} ->
            MapInsert(tm, type_def.name,
                      TypeInfo(type_def.name,
                               extract_fields_from_definition(type_def.fields)))
      [] type_def.variant = "InputObject" ->
            MapInsert(tm, type_def.name, TypeInfo(type_def.name, EmptyMap))
      [] OTHER -> tm

\* the for loop over obj.fields, inserting into entry.fields
RECURSIVE InsertFields(_, _)
InsertFields(fs, fields) ==
    IF fields = <<>>
    THEN fs
    ELSE InsertFields(MapInsert(fs, Head(fields).name,
                                get_field_type(Head(fields).field_type)),
                      Tail(fields))

process_type_extension(type_ext, tm) ==
    IF type_ext.variant = "Object"
    THEN LET entry == IF type_ext.name \in DOMAIN tm
                      THEN tm[type_ext.name]
                      ELSE TypeInfo(type_ext.name, EmptyMap)
         IN  MapInsert(tm, type_ext.name,
                       TypeInfo(entry.name,
                                InsertFields(entry.fields, type_ext.fields)))
    ELSE tm

\* mutant of create_root_type_alias: the entry is written whatever the names
create_root_type_alias_always(tm, standard_name, actual_name) ==
    LET fields == IF actual_name \in DOMAIN tm
                  THEN tm[actual_name].fields
                  ELSE EmptyMap
    IN  MapInsert(tm, standard_name, TypeInfo(actual_name, fields))

create_root_type_alias(tm, standard_name, actual_name) ==
    IF standard_name # actual_name
    THEN LET fields == IF actual_name \in DOMAIN tm
                       THEN tm[actual_name].fields
                       ELSE EmptyMap
         IN  MapInsert(tm, standard_name, TypeInfo(actual_name, fields))
    ELSE tm

\* first loop of build_type_map: the declared root operation type of `role`
\* ("query" or "mutation"), starting from the default name
RECURSIVE RootType(_, _, _)
RootType(defs, role, current) ==
    IF defs = <<>>
    THEN current
    ELSE LET d == Head(defs)
             declared == IF role = "query" THEN d.query ELSE d.mutation
         IN  RootType(Tail(defs), role,
                      IF d.kind = "SchemaDefinition" /\ declared # None
                      THEN declared
                      ELSE current)

\* second loop of build_type_map
RECURSIVE BuildTypes(_, _)
BuildTypes(defs, tm) ==
    IF defs = <<>>
    THEN tm
    ELSE LET d == Head(defs)
         IN  BuildTypes(Tail(defs),
                        CASE d.kind = "TypeDefinition" -> process_type_definition(d, tm)
                          [] d.kind = "TypeExtension" -> process_type_extension(d, tm)
                          [] OTHER -> tm)

build_type_map(doc) ==
    LET query_type == RootType(doc, "query", "Query")
        mutation_type == RootType(doc, "mutation", "Mutation")
        types == BuildTypes(doc, EmptyMap)
        with_query == create_root_type_alias(types, "Query", query_type)
    IN  create_root_type_alias(with_query, "Mutation", mutation_type)

----------------------------------------------------------------------------
\* Query document ASTs.

Field(n, items) ==
    [kind |-> "Field", name |-> n, type_condition |-> None, items |-> items]
FragmentSpread(n) ==
    [kind |-> "FragmentSpread", name |-> n, type_condition |-> None, items |-> <<>>]
InlineFragment(cond, items) ==
    [kind |-> "InlineFragment", name |-> None, type_condition |-> cond, items |-> items]

VariableDefinition(n, t) == [name |-> n, var_type |-> t]

\* op is "Query", "Mutation", "Subscription" or "SelectionSet"
Operation(op, variable_definitions, items) ==
    [kind |-> "Operation", op |-> op, name |-> None, type_condition |-> None,
     variable_definitions |-> variable_definitions, items |-> items]
FragmentDefinition(n, cond, items) ==
    [kind |-> "Fragment", op |-> None, name |-> n, type_condition |-> cond,
     variable_definitions |-> <<>>, items |-> items]

----------------------------------------------------------------------------
\* The Coordinate Extractor.

Ok(cs) == [ok |-> TRUE, coordinates |-> cs, error |-> None]
Err(reason) == [ok |-> FALSE, coordinates |-> {}, error |-> reason]

SubscriptionError == "Schema is not configured to execute subscription"

\* no call has returned
NoResult == [ok |-> FALSE, coordinates |-> {}, error |-> None]

BUILTIN_SCALARS == {"String", "Int", "Float", "Boolean", "ID"}

\* mutant of is_scalar: no name is filtered out
is_scalar_never(type_name) == FALSE

is_scalar(type_name) == type_name \in BUILTIN_SCALARS

RECURSIVE extract_input_types(_, _, _)
extract_input_types(var_type, tm, coords) ==
    IF var_type.wraps = <<>>
    THEN IF var_type.name \in DOMAIN tm /\ ~is_scalar(var_type.name)
         THEN coords \cup {var_type.name}
         ELSE coords
    ELSE extract_input_types([var_type EXCEPT !.wraps = Tail(@)], tm, coords)

\* mutant of canonical_parent_type: the lookup key is used as the type name
literal_parent_type(tm, parent_type) == parent_type

\* type_map.get(parent_type).map(|info| info.name).unwrap_or(parent_type)
canonical_parent_type(tm, parent_type) ==
    IF parent_type \in DOMAIN tm THEN tm[parent_type].name ELSE parent_type

\* format!("{}.{}", canonical_parent_type, field.name)
field_coordinate(tm, parent_type, field_name) ==
    canonical_parent_type(tm, parent_type) \o "." \o field_name

\* mutant of field_type_name: an undeclared field is walked under its parent's key
field_type_name_or_parent(tm, parent_type, field_name) ==
    IF parent_type \in DOMAIN tm /\ field_name \in DOMAIN tm[parent_type].fields
    THEN tm[parent_type].fields[field_name]
    ELSE parent_type

\* type_map.get(parent_type) and then type_info.fields.get(&field.name):
\* the field's return type, None when either lookup misses
field_type_name(tm, parent_type, field_name) ==
    IF parent_type \in DOMAIN tm /\ field_name \in DOMAIN tm[parent_type].fields
    THEN tm[parent_type].fields[field_name]
    ELSE None

\* mutant of inline_fragment_type: the type condition is ignored
enclosing_parent_type(inline, parent_type) == parent_type

\* the parent key used below an inline fragment
inline_fragment_type(inline, parent_type) ==
    IF inline.type_condition # None THEN inline.type_condition ELSE parent_type

\* mutant of spread_matches: a spread walks every fragment definition
spread_matches_any(definition, spread) == definition.kind = "Fragment"

\* whether a definition of the document is the fragment a spread names
spread_matches(definition, spread) ==
    definition.kind = "Fragment" /\ definition.name = spread.name

RECURSIVE extract_from_selection_set(_, _, _, _, _)
RECURSIVE extract_from_spread(_, _, _, _, _)

\* the for loop over query_doc.definitions of the FragmentSpread arm
extract_from_spread(definitions, spread, tm, doc, coords) ==
    IF definitions = <<>>
    THEN coords
    ELSE LET fragment == Head(definitions)
             after == IF spread_matches(fragment, spread)
                      THEN extract_from_selection_set(
                               fragment.items, fragment.type_condition, tm, doc, coords)
                      ELSE coords
         IN  extract_from_spread(Tail(definitions), spread, tm, doc, after)

extract_from_selection_set(selection_set, parent_type, tm, doc, coords) ==
    IF selection_set = <<>>
    THEN coords
    ELSE LET selection == Head(selection_set)
             after ==
                 CASE selection.kind = "Field" ->
                        LET added == coords \cup
                                       {field_coordinate(tm, parent_type, selection.name)}
                            field_type == field_type_name(tm, parent_type,
                                                          selection.name)
                        IN  IF selection.items # <<>> /\ field_type # None
                            THEN extract_from_selection_set(
                                     selection.items, field_type, tm, doc, added)
                            ELSE added
                   [] selection.kind = "FragmentSpread" ->
                        extract_from_spread(doc, selection, tm, doc, coords)
                   [] selection.kind = "InlineFragment" ->
                        extract_from_selection_set(
                            selection.items,
                            inline_fragment_type(selection, parent_type),
                            tm, doc, coords)
         IN  extract_from_selection_set(Tail(selection_set), parent_type, tm, doc, after)

\* the for loop over variable_defs
RECURSIVE extract_variables(_, _, _)
extract_variables(variable_defs, tm, coords) ==
    IF variable_defs = <<>>
    THEN coords
    ELSE extract_variables(Tail(variable_defs), tm,
                           extract_input_types(Head(variable_defs).var_type, tm, coords))

\* the root key of an operation (the match of extract_from_operation)
root_type(operation) == IF operation.op = "Mutation" THEN "Mutation" ELSE "Query"

\* mutant of rejects: the subscription arm falls through to the query arm
rejects_nothing(operation) == FALSE

\* whether extract_from_operation returns Err
rejects(operation) == operation.op = "Subscription"

extract_from_operation(operation, tm, doc, coords) ==
    IF rejects(operation)
    THEN Err(SubscriptionError)
    ELSE LET variable_defs == IF operation.op = "SelectionSet"
                              THEN <<>>
                              ELSE operation.variable_definitions
             with_inputs == extract_variables(variable_defs, tm, coords)
         IN  Ok(extract_from_selection_set(operation.items, root_type(operation),
                                           tm, doc, with_inputs))

\* the whole of extract_schema_coordinates on a parsed document, from a fresh
\* HashSet: the for loop over the definitions, ? on the first Err
RECURSIVE extract_definitions(_, _, _, _)
extract_definitions(definitions, tm, doc, coords) ==
    IF definitions = <<>>
    THEN Ok(coords)
    ELSE LET definition == Head(definitions)
         IN  IF definition.kind = "Operation"
             THEN LET r == extract_from_operation(definition, tm, doc, coords)
                  IN  IF r.ok
                      THEN extract_definitions(Tail(definitions), tm, doc, r.coordinates)
                      ELSE r
             ELSE extract_definitions(Tail(definitions), tm, doc, coords)

extract_schema_coordinates(tm, doc) == extract_definitions(doc, tm, doc, {})

----------------------------------------------------------------------------
\* Inputs: schema documents.

\* sequences over S of length 1..n
RECURSIVE SeqsUpTo(_, _)
SeqsUpTo(S, n) ==
    IF n = 0
    THEN {}
    ELSE LET shorter == SeqsUpTo(S, n - 1)
         IN  {<<x>> : x \in S} \cup shorter \cup
             {Append(q, x) : q \in shorter, x \in S}

WrapSeqs == {<<>>} \cup SeqsUpTo({"NonNullType", "ListType"}, MaxWraps)

TypeRefs(names) == {[wraps |-> w, name |-> n] : w \in WrapSeqs, n \in names}

FieldsA == <<FieldDef("a", NonNull(Named("Root")))>>
FieldsB == <<FieldDef("b", List(NonNull(Named("String"))))>>
FieldsAB == <<FieldDef("a", Named("String")), FieldDef("b", Named("Root"))>>

\* the definitions a generated schema document is made of
SchemaDefinitions ==
    {SchemaDefinition(q, m) : q \in {None, "Root", "Mutation"}, m \in {None, "Query"}}
    \cup {TypeDefinition("Object", n, fs) :
              n \in {"Query", "Mutation", "Root"}, fs \in {FieldsA, FieldsB}}
    \cup {TypeDefinition("Interface", "Root", FieldsAB),
          TypeDefinition("InputObject", "Root", FieldsA),
          TypeDefinition("Enum", "Query", <<>>),
          TypeDefinition("Scalar", "Mutation", <<>>)}
    \cup {TypeExtension("Object", n, FieldsB) : n \in {"Query", "Mutation", "Root"}}
    \cup {TypeExtension("Object", "Root", FieldsAB),
          TypeExtension("Interface", "Root", FieldsB),
          DirectiveDefinition("d")}

SchemaDocs == {<<>>} \cup SeqsUpTo(SchemaDefinitions, MaxSchemaDefs)

\* Schemas the extraction calls run against.
\* schema { query: Root }  type Root { a: Human!  b: String }
\* type Human { a: String }  extend type Human { b: [Human] }
\* type Mutation { a: Human }  input VetInput { a: String }  enum Species
AliasedSchema ==
    << SchemaDefinition("Root", None),
       TypeDefinition("Object", "Root",
           <<FieldDef("a", NonNull(Named("Human"))), FieldDef("b", Named("String"))>>),
       TypeDefinition("Object", "Human", <<FieldDef("a", Named("String"))>>),
       TypeExtension("Object", "Human", <<FieldDef("b", List(Named("Human")))>>),
       TypeDefinition("Object", "Mutation", <<FieldDef("a", Named("Human"))>>),
       TypeDefinition("InputObject", "VetInput", <<FieldDef("a", Named("String"))>>),
       TypeDefinition("Enum", "Species", <<>>) >>

\* no schema block, Human undeclared, an object type named like a built-in scalar:
\* type Query { a: Human  b: ID }  type ID { a: ID }  scalar Date  input VetInput
PlainSchema ==
    << TypeDefinition("Object", "Query",
           <<FieldDef("a", Named("Human")), FieldDef("b", Named("ID"))>>),
       TypeDefinition("Object", "ID", <<FieldDef("a", Named("ID"))>>),
       TypeDefinition("Scalar", "Species", <<>>),
       TypeDefinition("InputObject", "VetInput", <<>>) >>

\* both roots renamed, the mutation root to the other root's literal key:
\* schema { query: Root  mutation: Query }
\* type Root { a: Human }  type Query { b: Human }  interface Human { a: Human }
CrossSchema ==
    << SchemaDefinition("Root", "Query"),
       TypeDefinition("Object", "Root", <<FieldDef("a", Named("Human"))>>),
       TypeDefinition("Object", "Query", <<FieldDef("b", Named("Human"))>>),
       TypeDefinition("Interface", "Human", <<FieldDef("a", Named("Human"))>>) >>

Schemas == {AliasedSchema, PlainSchema, CrossSchema}

----------------------------------------------------------------------------
\* Inputs: query documents.

FieldNames == {"a", "b"}
FragmentNames == {"F"}
TypeConditions == {"Human", "Query"}
VariableTypeNames == {"VetInput", "Species", "ID", "Human", "Query", "Snake"}

Leaves == {Field(f, <<>>) : f \in FieldNames}
          \cup {FragmentSpread(n) : n \in FragmentNames}

RECURSIVE Selections(_)
SelectionSets(d) ==
    {<<s>> : s \in Selections(d)} \cup {<<s, Field("b", <<>>)>> : s \in Selections(d)}

Selections(d) ==
    IF d = 0
    THEN Leaves
    ELSE Leaves
         \cup {Field(f, ss) : f \in FieldNames, ss \in SelectionSets(d - 1)}
         \cup {InlineFragment(c, ss) :
                   c \in TypeConditions \cup {None}, ss \in SelectionSets(d - 1)}

\* the fragment definitions of a generated document (none spreads a fragment)
FragmentTables ==
    { <<>>,
      <<FragmentDefinition("F", "Human",
            <<Field("b", <<Field("a", <<>>)>>), Field("a", <<Field("b", <<>>)>>)>>)>>,
      <<FragmentDefinition("F", "Query",
            <<InlineFragment(None, <<Field("a", <<Field("a", <<>>)>>)>>)>>)>> }

VariableLists ==
    LET defs == {VariableDefinition("v", t) : t \in TypeRefs(VariableTypeNames)}
    IN  {<<v>> : v \in defs}
        \cup {<<v, VariableDefinition("w", NonNull(Named("VetInput")))>> : v \in defs}

\* one operation with a generated selection set
DeepOperations ==
    {Operation(op, <<>>, ss) :
         op \in {"Query", "Mutation"}, ss \in SelectionSets(MaxDepth)}

\* one operation with variable declarations
VariableOperations ==
    {Operation(op, vs, <<Field("a", <<>>)>>) :
         op \in {"Query", "Mutation"}, vs \in VariableLists}

\* the operations of a multi-operation document
SmallOperations ==
    { Operation("SelectionSet", <<>>, <<Field("a", <<Field("b", <<>>)>>)>>),
      Operation("Query", <<VariableDefinition("v", Named("VetInput"))>>,
                <<FragmentSpread("F")>>),
      Operation("Mutation", <<>>, <<Field("a", <<>>), Field("b", <<>>)>>),
      Operation("Subscription", <<>>, <<Field("b", <<>>)>>) }

OperationLists ==
    {<<o>> : o \in DeepOperations \cup VariableOperations}
    \cup SeqsUpTo(SmallOperations, MaxOps)

\* an operation that spreads G, a name no generated document defines
UnknownSpreadOperation ==
    Operation("Query", <<>>,
              <<FragmentSpread("G"),
                Field("a", <<FragmentSpread("G"),
                             InlineFragment(None, <<FragmentSpread("G")>>)>>),
                Field("b", <<>>)>>)

QueryDocs ==
    {ops \o fragments : ops \in OperationLists, fragments \in FragmentTables}
    \cup {fragments \o ops : ops \in SeqsUpTo(SmallOperations, MaxOps),
                             fragments \in FragmentTables \ {<<>>}}
    \cup {<<UnknownSpreadOperation>> \o fragments : fragments \in FragmentTables}

----------------------------------------------------------------------------
\* The state machine: ParsedSchema::new, then extraction calls, each a walk of
\* the for loop of extract_schema_coordinates over the document's definitions.

Unbuilt == [unbuilt |-> TRUE]

InitWith(schemas) ==
    /\ schema_doc \in schemas
    /\ type_map = Unbuilt
    /\ pc = "unparsed"
    /\ query_doc = <<>>
    /\ next_def = 1
    /\ coordinates = {}
    /\ result = NoResult
    /\ seen_doc = <<>>
    /\ seen_result = NoResult
    /\ stack = <<>>
    /\ entered = {}

Init == InitWith(Schemas)

InitIndex == InitWith(SchemaDocs)

\* ParsedSchema::new
New ==
    /\ pc = "unparsed"
    /\ type_map' = build_type_map(schema_doc)
    /\ pc' = "idle"
    /\ UNCHANGED <<stack, entered, schema_doc, query_doc, next_def, coordinates, result,
                   seen_doc, seen_result>>

\* mutant of NewCoordinates: the set of the previous call is reused
StaleCoordinates == coordinates

\* let mut coordinates = HashSet::new()
NewCoordinates == {}

\* extract_schema_coordinates is entered with a parsed document of `docs`
Enter(docs) ==
    /\ \E doc \in docs : query_doc' = doc
    /\ coordinates' = NewCoordinates
    /\ next_def' = 1
    /\ result' = NoResult
    /\ pc' = "extracting"
    /\ stack' = <<>>
    /\ entered' = {}
    /\ UNCHANGED <<schema_doc, type_map>>

Call ==
    /\ pc = "idle"
    /\ Enter(QueryDocs)
    /\ UNCHANGED <<seen_doc, seen_result>>

\* one iteration of the loop on an operation that extract_from_operation accepts
ExtractOperation ==
    /\ pc = "extracting"
    /\ next_def <= Len(query_doc)
    /\ query_doc[next_def].kind = "Operation"
    /\ LET r == extract_from_operation(query_doc[next_def], type_map, query_doc,
                                       coordinates)
       IN  /\ r.ok
           /\ coordinates' = r.coordinates
    /\ next_def' = next_def + 1
    /\ UNCHANGED <<stack, entered, schema_doc, type_map, pc, query_doc, result, seen_doc, seen_result>>

\* one iteration on an operation whose Err the ? operator propagates
RejectOperation ==
    /\ pc = "extracting"
    /\ next_def <= Len(query_doc)
    /\ query_doc[next_def].kind = "Operation"
    /\ LET r == extract_from_operation(query_doc[next_def], type_map, query_doc,
                                       coordinates)
       IN  /\ ~r.ok
           /\ result' = Err(r.error)
    /\ pc' = "returned"
    /\ UNCHANGED <<stack, entered, schema_doc, type_map, query_doc, next_def, coordinates,
                   seen_doc, seen_result>>

\* one iteration on a fragment definition
SkipFragment ==
    /\ pc = "extracting"
    /\ next_def <= Len(query_doc)
    /\ query_doc[next_def].kind = "Fragment"
    /\ next_def' = next_def + 1
    /\ UNCHANGED <<stack, entered, schema_doc, type_map, pc, query_doc, coordinates, result,
                   seen_doc, seen_result>>

\* the loop is over: Ok(coordinates.into_iter().collect())
Return ==
    /\ pc = "extracting"
    /\ next_def > Len(query_doc)
    /\ result' = Ok(coordinates)
    /\ pc' = "returned"
    /\ UNCHANGED <<stack, entered, schema_doc, type_map, query_doc, next_def, coordinates,
                   seen_doc, seen_result>>

\* the caller has the result; the call's locals are gone
Done ==
    /\ pc = "returned"
    /\ pc' = "idle"
    /\ query_doc' = <<>>
    /\ next_def' = 1
    /\ coordinates' = {}
    /\ result' = NoResult
    /\ entered' = {}
    /\ UNCHANGED <<schema_doc, type_map, seen_doc, seen_result, stack>>

Next ==
    \/ New
    \/ Call
    \/ ExtractOperation
    \/ RejectOperation
    \/ SkipFragment
    \/ Return
    \/ Done

Spec == Init /\ [][Next]_vars

NextIndex == New

\* Repeated calls on one ParsedSchema.  The documents of the calls:
RepeatDocs ==
    {ops \o fragments :
         ops \in SeqsUpTo(SmallOperations, MaxOps),
         fragments \in {f \in FragmentTables :
                            f # <<>> /\ f[1].type_condition = "Human"}}

\* a call that follows any earlier call; the history variables may keep the
\* call that has just returned
CallAgain ==
    /\ pc \in {"idle", "returned"}
    /\ Enter(RepeatDocs)
    /\ \/ UNCHANGED <<seen_doc, seen_result>>
       \/ /\ pc = "returned"
          /\ seen_doc' = query_doc
          /\ seen_result' = result

NextRepeat ==
    \/ New
    \/ CallAgain
    \/ ExtractOperation
    \/ RejectOperation
    \/ SkipFragment
    \/ Return

SpecRepeat == Init /\ [][NextRepeat]_vars

SpecIndex == InitIndex /\ [][NextIndex]_vars

----------------------------------------------------------------------------
\* Vocabulary of the properties.

Returned == pc = "returned"
ReturnedOk == pc = "returned" /\ result.ok

IsOperation(d, op) == d.kind = "Operation" /\ d.op = op

HasSubscription(doc) == \E i \in DOMAIN doc : IsOperation(doc[i], "Subscription")

\* the literal key an operation is rooted at
RootKey(operation) == IF operation.op = "Mutation" THEN "Mutation" ELSE "Query"

\* the root name the schema document declares for `role`: that of its last
\* schema block naming one, the literal key without any
DeclaredRoot(doc, role) ==
    LET named(i) == IF role = "Query" THEN doc[i].query ELSE doc[i].mutation
        blocks == {i \in DOMAIN doc :
                       doc[i].kind = "SchemaDefinition" /\ named(i) # None}
    IN  IF blocks = {}
        THEN role
        ELSE named(CHOOSE i \in blocks : \A j \in blocks : j <= i)

OtherRole(role) == IF role = "Query" THEN "Mutation" ELSE "Query"

\* the names of the fields selected while the parent key is `key`, reached from
\* selection_set under parent key `parent` through inline fragments and
\* fragment spreads alone (never through a field's own selections)
RECURSIVE FieldsAtKey(_, _, _, _)
FieldsAtKey(selection_set, parent, key, doc) ==
    UNION { LET s == selection_set[i]
            IN  CASE s.kind = "Field" ->
                       IF parent = key THEN {s.name} ELSE {}
                  [] s.kind = "InlineFragment" ->
                       FieldsAtKey(s.items,
                                   IF s.type_condition = None THEN parent
                                   ELSE s.type_condition,
                                   key, doc)
                  [] s.kind = "FragmentSpread" ->
                       UNION { FieldsAtKey(doc[j].items, doc[j].type_condition, key, doc) :
                                   j \in {k \in DOMAIN doc : doc[k].kind = "Fragment"
                                                             /\ doc[k].name = s.name} }
            : i \in DOMAIN selection_set }

\* the same, over every operation of the document
RootLevelFields(doc, key) ==
    UNION { FieldsAtKey(doc[i].items, RootKey(doc[i]), key, doc) :
                i \in {k \in DOMAIN doc : doc[k].kind = "Operation"} }

----------------------------------------------------------------------------
\* C1: a call on a document with a subscription operation at any position
\* returns the subscription error and no coordinates, whatever the operations
\* before it had already put into the accumulator.
C1_SubscriptionRejectsWholeCall ==
    (Returned /\ HasSubscription(query_doc))
        => /\ ~result.ok
           /\ result.error = SubscriptionError
           /\ result.coordinates = {}

\* a call rejected at a subscription that follows an operation whose
\* coordinates were already in the accumulator
C1_Witness ==
    /\ Returned
    /\ ~result.ok
    /\ next_def > 1
    /\ coordinates # {}

\* C2: with a declared root name R different from the literal key K, a field
\* selected under parent key K is emitted as "R.field" (at the top of an
\* operation, and below a fragment or inline fragment on K), and "K.field" is
\* not emitted for it.
C2_RootAliasing ==
    \A K \in {"Query", "Mutation"} :
        LET R == DeclaredRoot(schema_doc, K)
        IN  (pc # "unparsed" /\ R # K) =>
              /\ \A f \in FieldNames :
                     /\ field_coordinate(type_map, K, f) = R \o "." \o f
                     /\ field_coordinate(type_map, K, f) # K \o "." \o f
              /\ ReturnedOk =>
                     \A f \in RootLevelFields(query_doc, K) :
                         /\ (R \o "." \o f) \in result.coordinates
                         \* "K.f" can only come from the other root being named K
                         /\ DeclaredRoot(schema_doc, OtherRole(K)) # K
                                => (K \o "." \o f) \notin result.coordinates

\* a finished call under an aliased query root whose document selects a field
\* below an inline fragment on the literal key
C2_Witness ==
    /\ ReturnedOk
    /\ DeclaredRoot(schema_doc, "Query") = "Root"
    /\ \E i \in DOMAIN query_doc :
           /\ IsOperation(query_doc[i], "Mutation")
           /\ query_doc[i].items[1].kind = "InlineFragment"
           /\ query_doc[i].items[1].type_condition = "Query"
           /\ query_doc[i].items[1].items[1].kind = "Field"
    /\ \E f \in FieldNames : ("Root." \o f) \in result.coordinates

----------------------------------------------------------------------------
\* every key a selection set can be walked under
ParentKeys == {"Query", "Mutation", "Root", "Human", "String", "ID", "Snake"}

\* every selection occurring in a selection set, at any depth
RECURSIVE SelectionsIn(_)
SelectionsIn(selection_set) ==
    UNION { {selection_set[i]} \cup SelectionsIn(selection_set[i].items) :
                i \in DOMAIN selection_set }

SelectionsOf(doc) == UNION { SelectionsIn(doc[i].items) : i \in DOMAIN doc }

\* "{canonical_parent}.{field}": the entry's name when the parent is indexed,
\* the literal parent key otherwise
OwnCoordinate(parent, field_name) ==
    (IF parent \in DOMAIN type_map THEN type_map[parent].name ELSE parent)
        \o "." \o field_name

Declared(parent, field_name) ==
    parent \in DOMAIN type_map /\ field_name \in DOMAIN type_map[parent].fields

\* C3: a selected field always contributes "{canonical_parent}.{field}"; when
\* the parent key is not in the index or the field is not in its entry's
\* fields map, that is all the field contributes: nothing of its nested
\* selection set (fields, spreads, inline fragments, at any depth) does.
C3_LeafAdmission ==
    (pc # "unparsed") =>
      /\ \A s \in {x \in SelectionsOf(query_doc) : x.kind = "Field"} :
           \A parent \in ParentKeys :
             LET out == extract_from_selection_set(<<s>>, parent, type_map,
                                                   query_doc, {})
             IN  /\ OwnCoordinate(parent, s.name) \in out
                 /\ ~Declared(parent, s.name) => out = {OwnCoordinate(parent, s.name)}
      /\ ReturnedOk =>
           \A i \in {k \in DOMAIN query_doc : query_doc[k].kind = "Operation"} :
             \A j \in {k \in DOMAIN query_doc[i].items :
                           query_doc[i].items[k].kind = "Field"} :
               LET s == query_doc[i].items[j]
                   parent == RootKey(query_doc[i])
               IN  /\ OwnCoordinate(parent, s.name) \in result.coordinates
                   /\ (~Declared(parent, s.name) /\ Len(query_doc[i].items) = 1
                       /\ query_doc[i].variable_definitions = <<>>
                       /\ Len(query_doc) = 1)
                         => result.coordinates = {OwnCoordinate(parent, s.name)}

\* a finished call whose only operation selects one field that its root does not
\* declare, with an inline fragment inside the field's selection set
C3_Witness ==
    /\ ReturnedOk
    /\ Len(query_doc) = 1
    /\ Len(query_doc[1].items) = 1
    /\ query_doc[1].items[1].kind = "Field"
    /\ query_doc[1].items[1].items # <<>>
    /\ query_doc[1].items[1].items[1].kind = "InlineFragment"
    /\ RootKey(query_doc[1]) \in DOMAIN type_map
    /\ ~Declared(RootKey(query_doc[1]), query_doc[1].items[1].name)
    /\ Cardinality(result.coordinates) = 1

----------------------------------------------------------------------------
\* the fragment definitions a spread names
Matching(doc, spread) ==
    {k \in DOMAIN doc : doc[k].kind = "Fragment" /\ doc[k].name = spread.name}

\* a selection set with every spread of a (uniquely) defined fragment replaced
\* by an inline fragment carrying that definition's type condition and
\* selection set
RECURSIVE InlineSpreads(_, _)
InlineSpreads(selection_set, doc) ==
    IF selection_set = <<>>
    THEN <<>>
    ELSE LET s == Head(selection_set)
             t == CASE s.kind = "Field" ->
                         Field(s.name, InlineSpreads(s.items, doc))
                    [] s.kind = "InlineFragment" ->
                         InlineFragment(s.type_condition, InlineSpreads(s.items, doc))
                    [] s.kind = "FragmentSpread" ->
                         IF Cardinality(Matching(doc, s)) = 1
                         THEN LET d == doc[CHOOSE k \in Matching(doc, s) : TRUE]
                              IN  InlineFragment(d.type_condition,
                                                 InlineSpreads(d.items, doc))
                         ELSE s
         IN  <<t>> \o InlineSpreads(Tail(selection_set), doc)

\* a selection set with every inline fragment that has no type condition
\* replaced by its selections
RECURSIVE SpliceBare(_)
SpliceBare(selection_set) ==
    IF selection_set = <<>>
    THEN <<>>
    ELSE LET s == Head(selection_set)
             t == CASE s.kind = "Field" -> <<Field(s.name, SpliceBare(s.items))>>
                    [] s.kind = "InlineFragment" ->
                         IF s.type_condition = None
                         THEN SpliceBare(s.items)
                         ELSE <<InlineFragment(s.type_condition, SpliceBare(s.items))>>
                    [] s.kind = "FragmentSpread" -> <<s>>
         IN  t \o SpliceBare(Tail(selection_set))

RECURSIVE InlinedOperations(_, _)
InlinedOperations(definitions, doc) ==
    IF definitions = <<>>
    THEN <<>>
    ELSE LET d == Head(definitions)
         IN  << IF d.kind = "Operation"
                THEN [d EXCEPT !.items = InlineSpreads(d.items, doc)]
                ELSE d >> \o InlinedOperations(Tail(definitions), doc)

RECURSIVE Spliced(_)
Spliced(definitions) ==
    IF definitions = <<>>
    THEN <<>>
    ELSE << [Head(definitions) EXCEPT !.items = SpliceBare(@)] >>
         \o Spliced(Tail(definitions))

\* C4: replacing the fragment spreads of a document by inline fragments with
\* the definition's type condition and selection set, or the inline fragments
\* without a type condition by their selections, gives the same coordinate set.
C4_FragmentEquivalence ==
    ReturnedOk =>
      /\ extract_schema_coordinates(type_map, InlinedOperations(query_doc, query_doc))
           = Ok(result.coordinates)
      /\ extract_schema_coordinates(type_map, Spliced(query_doc))
           = Ok(result.coordinates)

\* a finished call on a document whose operation spreads a fragment at its top
\* level, the fragment's selection set starting with a bare inline fragment
C4_Witness ==
    /\ ReturnedOk
    /\ \E i \in DOMAIN query_doc :
           /\ query_doc[i].kind = "Operation"
           /\ \E j \in DOMAIN query_doc[i].items :
                  /\ query_doc[i].items[j].kind = "FragmentSpread"
                  /\ \E k \in Matching(query_doc, query_doc[i].items[j]) :
                         /\ query_doc[k].items[1].kind = "InlineFragment"
                         /\ query_doc[k].items[1].type_condition = None
    /\ InlinedOperations(query_doc, query_doc) # query_doc
    /\ Spliced(query_doc) # query_doc
    /\ Cardinality(result.coordinates) >= 3

----------------------------------------------------------------------------
\* the named types of the variable declarations of the query and mutation
\* operations of a document
VariableTypes(doc) ==
    UNION { {doc[i].variable_definitions[j].var_type :
                 j \in DOMAIN doc[i].variable_definitions} :
            i \in {k \in DOMAIN doc : IsOperation(doc[k], "Query")
                                      \/ IsOperation(doc[k], "Mutation")} }

VariableNamedTypes(doc) == {t.name : t \in VariableTypes(doc)}

\* the coordinates without a dot: every type name a document or a schema of the
\* model can mention (a field coordinate is never among them)
BareNames == VariableTypeNames \cup ParentKeys \cup BUILTIN_SCALARS

BareCoordinates == result.coordinates \cap BareNames

\* C5: the bare coordinate N is in the result exactly when some variable of a
\* query or mutation operation unwraps to the named type N, N is a key of the
\* index, and N is not String, Int, Float, Boolean or ID.
C5_VariableTypes ==
    ReturnedOk =>
      BareCoordinates =
        {N \in VariableNamedTypes(query_doc) :
             /\ N \in DOMAIN type_map
             /\ N \notin {"String", "Int", "Float", "Boolean", "ID"}}

\* a finished call with a wrapped variable of the indexed type ID, which is not
\* emitted, and a variable of an indexed input type, which is
C5_Witness ==
    /\ ReturnedOk
    /\ "ID" \in DOMAIN type_map
    /\ \E t \in VariableTypes(query_doc) : t.name = "ID" /\ Len(t.wraps) >= 2
    /\ "VetInput" \in result.coordinates
    /\ "ID" \notin result.coordinates

----------------------------------------------------------------------------
TypeNamesDeclared(doc, variants) ==
    {doc[i].name : i \in {k \in DOMAIN doc : doc[k].kind = "TypeDefinition"
                                             /\ doc[k].variant \in variants}}

\* C6 (as claimed): the bare coordinates of a result are exactly the input-object,
\* enum and custom-scalar types of the schema that a variable unwraps to, and
\* none names an object type, an interface type or a literal alias key.
C6_BareCoordinatesAreInputTypes ==
    ReturnedOk =>
      /\ BareCoordinates =
           VariableNamedTypes(query_doc)
             \cap TypeNamesDeclared(schema_doc, {"InputObject", "Enum", "Scalar"})
      /\ BareCoordinates
           \cap (TypeNamesDeclared(schema_doc, {"Object", "Interface"})
                   \cup {"Query", "Mutation"}) = {}

----------------------------------------------------------------------------
\* C7: on one ParsedSchema a call returns for a document what an earlier call
\* returned for the same document (coordinates or error), whatever calls were
\* made in between, and the index stays the one ParsedSchema::new built.
C7_Deterministic ==
    /\ (Returned /\ seen_doc = query_doc) => result = seen_result
    /\ (pc # "unparsed") => type_map = build_type_map(schema_doc)

\* a call has returned coordinates for the document of a remembered earlier call
C7_Witness ==
    /\ Returned
    /\ seen_doc = query_doc
    /\ result.ok
    /\ result.coordinates # {}

----------------------------------------------------------------------------
Built == pc = "idle"

ObjectExtensionsOf(doc, T) ==
    {i \in DOMAIN doc : doc[i].kind = "TypeExtension" /\ doc[i].variant = "Object"
                        /\ doc[i].name = T}

DeclarationsOf(doc, T, variants) ==
    {i \in DOMAIN doc : doc[i].kind = "TypeDefinition" /\ doc[i].variant \in variants
                        /\ doc[i].name = T}

FieldNamesAt(doc, i) == {doc[i].fields[j].name : j \in DOMAIN doc[i].fields}

\* the field names a schema document declares for T: those of its object and
\* interface declarations and of its object extensions
DeclaredFieldNames(doc, T) ==
    UNION { FieldNamesAt(doc, i) :
                i \in DeclarationsOf(doc, T, {"Object", "Interface"})
                      \cup ObjectExtensionsOf(doc, T) }

\* C8 (as claimed): after build_type_map the index has an entry at "Query" and
\* one at "Mutation", whatever the schema document.
C8_RootKeysAlwaysPresent ==
    Built => {"Query", "Mutation"} \subseteq DOMAIN type_map

\* C8 (amended): the index has an entry at the literal key exactly when the
\* schema declares another root name for it, or declares an object, interface
\* or input-object type, or an object extension, of that name.
C8_RootKeysPresentWhenDeclared ==
    Built =>
      \A K \in {"Query", "Mutation"} :
          K \in DOMAIN type_map
            <=> \/ DeclaredRoot(schema_doc, K) # K
                \/ DeclarationsOf(schema_doc, K,
                                  {"Object", "Interface", "InputObject"}) # {}
                \/ ObjectExtensionsOf(schema_doc, K) # {}

\* an index built from a schema that names no roots and declares Mutation but
\* nothing called Query: the key "Query" is absent
C8_Witness ==
    /\ Built
    /\ schema_doc # <<>>
    /\ DeclaredRoot(schema_doc, "Query") = "Query"
    /\ "Query" \notin DOMAIN type_map
    /\ "Mutation" \in DOMAIN type_map

\* C9 (as claimed): for a type with one object or interface declaration, the
\* fields of its entry are those of the declaration and of all its object
\* extensions, wherever the extensions stand in the document.
C9_ExtensionOrderIrrelevant ==
    Built =>
      \A T \in {"Query", "Mutation", "Root"} :
          ( /\ Cardinality(DeclarationsOf(schema_doc, T,
                     {"Object", "Interface", "InputObject"})) = 1
            /\ DeclarationsOf(schema_doc, T, {"Object", "Interface"}) # {}
            \* the entry at T is T's own, not a root alias
            /\ T \in {"Query", "Mutation"} => DeclaredRoot(schema_doc, T) = T )
          => /\ T \in DOMAIN type_map
             /\ DOMAIN type_map[T].fields = DeclaredFieldNames(schema_doc, T)

\* C10 (as claimed): for a literal key K whose declared root name R differs
\* from K, the entry at K has canonical name R and the fields R is declared
\* with (declaration plus extensions; none if R is not declared), also when R
\* is the other root's literal key.
C10_AliasEntries ==
    Built =>
      \A K \in {"Query", "Mutation"} :
          LET R == DeclaredRoot(schema_doc, K)
          IN  ( /\ R # K
                /\ Cardinality(DeclarationsOf(schema_doc, R,
                         {"Object", "Interface", "InputObject"})) <= 1
                /\ Cardinality({i \in DOMAIN schema_doc :
                                    schema_doc[i].kind = "SchemaDefinition"}) = 1
                \* R's extensions follow its declaration (C9 is about the others)
                /\ \A e \in ObjectExtensionsOf(schema_doc, R) :
                       \A d \in DeclarationsOf(schema_doc, R,
                                  {"Object", "Interface", "InputObject"}) : d < e )
              => /\ K \in DOMAIN type_map
                 /\ type_map[K].name = R
                 /\ DOMAIN type_map[K].fields = DeclaredFieldNames(schema_doc, R)

----------------------------------------------------------------------------
\* extract_from_selection_set one activation at a time.  The recursion of the
\* source is a stack of activations; a thread's stack is finite, so a recursion
\* deeper than MaxFrames activations overflows it and the call never returns.

MaxFrames == 8

\* one activation: the selections its for loop has still to visit, its
\* parent_type, and, while its FragmentSpread arm runs, the position its loop
\* over query_doc.definitions has reached (0 outside that arm)
Frame(selection_set, parent_type) ==
    [selections |-> selection_set, parent_type |-> parent_type, scan |-> 0]

Top == stack[Len(stack)]

Walking == pc = "extracting" /\ stack # <<>>

\* the innermost activation moves on to its next selection
Advanced == [stack EXCEPT ![Len(stack)] = [@ EXCEPT !.selections = Tail(@), !.scan = 0]]

\* a call of extract_from_selection_set from the activations `below`
Recurse(below, selection_set, parent_type) ==
    IF Len(below) < MaxFrames
    THEN /\ stack' = Append(below, Frame(selection_set, parent_type))
         /\ pc' = pc
    ELSE /\ stack' = below
         /\ pc' = "overflow"

\* mutant of descent_type: the selections of an undeclared field are walked
\* under the parent's key
descent_type_or_parent(tm, parent_type, field) ==
    IF field.items = <<>>
    THEN None
    ELSE field_type_name_or_parent(tm, parent_type, field.name)

\* the parent key of the nested call of the Field arm, None when there is no
\* nested call: the field has no selections, or a lookup misses
descent_type(tm, parent_type, field) ==
    IF field.items = <<>>
    THEN None
    ELSE field_type_name(tm, parent_type, field.name)

\* the definitions after position `from` that the FragmentSpread arm walks
MatchesAfter(doc, spread, from) ==
    {k \in DOMAIN doc : k > from /\ spread_matches(doc[k], spread)}

Min(S) == CHOOSE k \in S : \A j \in S : k <= j

\* extract_from_operation on an operation it accepts, up to its call of
\* extract_from_selection_set
BeginOperation ==
    /\ pc = "extracting"
    /\ stack = <<>>
    /\ next_def <= Len(query_doc)
    /\ query_doc[next_def].kind = "Operation"
    /\ ~rejects(query_doc[next_def])
    /\ LET operation == query_doc[next_def]
           variable_defs == IF operation.op = "SelectionSet"
                            THEN <<>>
                            ELSE operation.variable_definitions
       IN  /\ coordinates' = extract_variables(variable_defs, type_map, coordinates)
           /\ Recurse(<<>>, operation.items, root_type(operation))
    /\ UNCHANGED <<schema_doc, type_map, query_doc, next_def, result, seen_doc,
                   seen_result, entered>>

\* extract_from_operation on a subscription: Err, propagated by ?
WalkReject ==
    /\ pc = "extracting"
    /\ stack = <<>>
    /\ next_def <= Len(query_doc)
    /\ query_doc[next_def].kind = "Operation"
    /\ rejects(query_doc[next_def])
    /\ result' = Err(SubscriptionError)
    /\ pc' = "returned"
    /\ UNCHANGED <<schema_doc, type_map, query_doc, next_def, coordinates,
                   seen_doc, seen_result, stack, entered>>

\* the Field arm
WalkField ==
    /\ Walking
    /\ Top.selections # <<>>
    /\ Head(Top.selections).kind = "Field"
    /\ LET field == Head(Top.selections)
           field_type == descent_type(type_map, Top.parent_type, field)
       IN  /\ coordinates' = coordinates
                 \cup {field_coordinate(type_map, Top.parent_type, field.name)}
           /\ IF field_type # None
              THEN Recurse(Advanced, field.items, field_type)
              ELSE stack' = Advanced /\ pc' = pc
    /\ UNCHANGED <<schema_doc, type_map, query_doc, next_def, result, seen_doc,
                   seen_result, entered>>

\* the InlineFragment arm
WalkInlineFragment ==
    /\ Walking
    /\ Top.selections # <<>>
    /\ Head(Top.selections).kind = "InlineFragment"
    /\ LET inline == Head(Top.selections)
       IN  Recurse(Advanced, inline.items,
                   inline_fragment_type(inline, Top.parent_type))
    /\ UNCHANGED <<schema_doc, type_map, query_doc, next_def, coordinates, result,
                   seen_doc, seen_result, entered>>

\* the FragmentSpread arm: its loop runs on to the next definition the spread
\* names and walks it, or ends
WalkFragmentSpread ==
    /\ Walking
    /\ Top.selections # <<>>
    /\ Head(Top.selections).kind = "FragmentSpread"
    /\ LET matches == MatchesAfter(query_doc, Head(Top.selections), Top.scan)
       IN  IF matches = {}
           THEN /\ stack' = Advanced
                /\ pc' = pc
                /\ entered' = entered
           ELSE LET k == Min(matches)
                IN  /\ Recurse([stack EXCEPT ![Len(stack)].scan = k],
                               query_doc[k].items, query_doc[k].type_condition)
                    /\ entered' = entered \cup {k}
    /\ UNCHANGED <<schema_doc, type_map, query_doc, next_def, coordinates, result,
                   seen_doc, seen_result>>

\* the for loop of an activation is over: it returns to its caller, the
\* outermost one to the loop over the definitions
WalkReturn ==
    /\ Walking
    /\ Top.selections = <<>>
    /\ stack' = SubSeq(stack, 1, Len(stack) - 1)
    /\ next_def' = IF Len(stack) = 1 THEN next_def + 1 ELSE next_def
    /\ UNCHANGED <<schema_doc, type_map, pc, query_doc, coordinates, result,
                   seen_doc, seen_result, entered>>

----------------------------------------------------------------------------
\* Calls whose documents have fragments that spread fragments.  Field c is
\* declared by no schema.

SpreadOperations ==
    { Operation("Query", <<>>, <<FragmentSpread("F")>>),
      Operation("Query", <<>>,
                <<Field("a", <<FragmentSpread("F")>>), Field("b", <<>>)>>),
      Operation("Query", <<>>,
                <<Field("c", <<FragmentSpread("F")>>), Field("a", <<>>)>>),
      Operation("Mutation", <<>>, <<Field("a", <<FragmentSpread("F")>>)>>),
      Operation("Query", <<>>,
                <<InlineFragment("Human", <<FragmentSpread("G")>>)>>),
      Operation("SelectionSet", <<>>, <<Field("b", <<FragmentSpread("F")>>)>>),
      Operation("Subscription", <<>>, <<FragmentSpread("F")>>) }

SpreadingFragmentTables ==
    { <<>>,
      \* F spreads itself
      <<FragmentDefinition("F", "Human", <<Field("a", <<>>), FragmentSpread("F")>>)>>,
      \* F spreads G below a field, G spreads F
      <<FragmentDefinition("F", "Human", <<Field("a", <<FragmentSpread("G")>>)>>),
        FragmentDefinition("G", "Human", <<FragmentSpread("F")>>)>>,
      \* F spreads itself below an undeclared field
      <<FragmentDefinition("F", "Human",
            <<Field("c", <<FragmentSpread("F")>>), Field("b", <<>>)>>)>>,
      \* G spreads itself, F spreads nothing
      <<FragmentDefinition("F", "Human", <<Field("b", <<>>)>>),
        FragmentDefinition("G", "Query",
            <<InlineFragment("Human", <<FragmentSpread("G")>>)>>)>>,
      \* F spreads G, G spreads nothing
      <<FragmentDefinition("F", "Human", <<FragmentSpread("G")>>),
        FragmentDefinition("G", "Human", <<Field("a", <<Field("b", <<>>)>>)>>)>>,
      \* two definitions named F
      <<FragmentDefinition("F", "Human", <<Field("a", <<>>)>>),
        FragmentDefinition("F", "Query", <<Field("b", <<>>)>>)>> }

SpreadOperationLists ==
    {<<o>> : o \in SpreadOperations}
    \cup {<<Operation("Query", <<>>,
                      <<Field("c", <<FragmentSpread("F")>>), Field("a", <<>>)>>), o>> :
              o \in SpreadOperations}

WalkDocs ==
    {ops \o fragments : ops \in SpreadOperationLists,
                        fragments \in SpreadingFragmentTables}
    \cup {fragments \o <<o>> : o \in SpreadOperations,
                               fragments \in SpreadingFragmentTables \ {<<>>}}

CallWalk ==
    /\ pc = "idle"
    /\ Enter(WalkDocs)
    /\ UNCHANGED <<seen_doc, seen_result>>

\* the steps of a call in progress
WalkStep ==
    \/ BeginOperation
    \/ WalkReject
    \/ WalkField
    \/ WalkInlineFragment
    \/ WalkFragmentSpread
    \/ WalkReturn
    \/ SkipFragment
    \/ Return

NextWalk ==
    \/ New
    \/ CallWalk
    \/ BeginOperation
    \/ WalkReject
    \/ WalkField
    \/ WalkInlineFragment
    \/ WalkFragmentSpread
    \/ WalkReturn
    \/ SkipFragment
    \/ Return
    \/ Done

\* the call is synchronous: once entered it runs until it returns or the
\* thread's stack overflows
SpecWalk == Init /\ [][NextWalk]_vars /\ WF_vars(WalkStep)

----------------------------------------------------------------------------
\* the call does not return: the recursion has overflowed the stack
Overflowed == pc = "overflow"

\* the fragment definitions named by the spreads that occur anywhere in a
\* selection set
SpreadAnywhere(selection_set, doc) ==
    UNION { Matching(doc, s) :
                s \in {t \in SelectionsIn(selection_set) : t.kind = "FragmentSpread"} }

\* the fragment definitions named by the spreads a walk of a selection set
\* under a parent key comes to, not counting what the walk of those fragments
\* comes to: selections below an undeclared field or an unindexed parent are
\* left out
RECURSIVE SpreadWalked(_, _, _)
SpreadWalked(selection_set, parent, doc) ==
    UNION { LET s == selection_set[i]
            IN  CASE s.kind = "FragmentSpread" -> Matching(doc, s)
                  [] s.kind = "InlineFragment" ->
                       SpreadWalked(s.items,
                                    IF s.type_condition = None
                                    THEN parent ELSE s.type_condition, doc)
                  [] s.kind = "Field" ->
                       IF Declared(parent, s.name)
                       THEN SpreadWalked(s.items, type_map[parent].fields[s.name], doc)
                       ELSE {}
            : i \in DOMAIN selection_set }

\* the fragment definitions spread by fragment definition k, syntactically
SpreadsOf(doc, k) == SpreadAnywhere(doc[k].items, doc)

\* the fragment definitions whose spreads a walk of fragment definition k
\* under its type condition comes to
WalkedSpreadsOf(doc, k) == SpreadWalked(doc[k].items, doc[k].type_condition, doc)

\* the definitions reached from the set K by one or more steps of the
\* relation `edges` (a function from definitions to sets of definitions)
RECURSIVE ReachedFrom(_, _, _)
ReachedFrom(K, seen, edges) ==
    LET next == UNION {edges[k] : k \in K} \ seen
    IN  IF next = {} THEN seen ELSE ReachedFrom(next, seen \cup next, edges)

\* fragment definition k transitively spreads itself
SelfSpreading(doc, k) ==
    k \in ReachedFrom({k}, {}, [j \in DOMAIN doc |-> SpreadsOf(doc, j)])

\* the walk of fragment definition k comes back to a spread of k
SelfWalking(doc, k) ==
    k \in ReachedFrom({k}, {}, [j \in DOMAIN doc |-> WalkedSpreadsOf(doc, j)])

\* C11 (as claimed): a call returns if and only if its walk has come to no
\* spread of a fragment that transitively spreads itself.
C11_ReturnsIffNoSelfSpreadingFragment ==
    /\ Returned => \A k \in entered : ~SelfSpreading(query_doc, k)
    /\ Overflowed => \E k \in entered : SelfSpreading(query_doc, k)

\* C11 (amended): a call returns if and only if its walk comes to no spread of
\* a fragment whose own walk comes back to a spread of itself; a fragment that
\* spreads itself only below undeclared fields or unindexed parents is walked
\* and the call returns.
C11_ReturnsIffNoSelfWalkingFragment ==
    /\ [](Returned => \A k \in entered : ~SelfWalking(query_doc, k))
    /\ [](Overflowed => \E k \in entered : SelfWalking(query_doc, k))
    /\ [](pc = "extracting"
            => <>(Returned \/ \E k \in entered : SelfWalking(query_doc, k)))

\* a call has returned whose walk went into a fragment that spreads itself,
\* but only below a selection the walk leaves out
C11_Witness ==
    /\ ReturnedOk
    /\ \E k \in entered : SelfSpreading(query_doc, k) /\ ~SelfWalking(query_doc, k)
    /\ Cardinality(result.coordinates) >= 2

----------------------------------------------------------------------------
\* a spread that names no fragment definition of the document
UnknownSpread(doc, s) == s.kind = "FragmentSpread" /\ Matching(doc, s) = {}

\* a selection set with those spreads removed, at every depth
RECURSIVE WithoutUnknownSpreads(_, _)
WithoutUnknownSpreads(selection_set, doc) ==
    IF selection_set = <<>>
    THEN <<>>
    ELSE LET s == Head(selection_set)
             kept == IF UnknownSpread(doc, s)
                     THEN <<>>
                     ELSE <<[s EXCEPT !.items = WithoutUnknownSpreads(@, doc)]>>
         IN  kept \o WithoutUnknownSpreads(Tail(selection_set), doc)

\* the document with them removed from every operation and fragment
SpreadsRemoved(doc) ==
    [i \in DOMAIN doc |->
         [doc[i] EXCEPT !.items = WithoutUnknownSpreads(@, doc)]]

\* C12: a fragment spread that names no fragment definition of the document
\* makes no call fail and adds nothing: the call returns what it returns for
\* the document with those spreads removed, and an error only for a
\* subscription.
C12_UnknownSpreadIsNoOp ==
    (Returned /\ \E s \in SelectionsOf(query_doc) : UnknownSpread(query_doc, s))
      => /\ result = extract_schema_coordinates(type_map, SpreadsRemoved(query_doc))
         /\ ~HasSubscription(query_doc) => result.ok

\* a finished call on a document that defines a fragment and spreads another
\* name, at the top level and below a declared field
C12_Witness ==
    /\ ReturnedOk
    /\ \E i \in DOMAIN query_doc : query_doc[i].kind = "Fragment"
    /\ \E i \in DOMAIN query_doc :
           /\ query_doc[i].kind = "Operation"
           /\ \E j \in DOMAIN query_doc[i].items :
                  UnknownSpread(query_doc, query_doc[i].items[j])
           /\ \E j \in DOMAIN query_doc[i].items :
                  LET f == query_doc[i].items[j]
                  IN  /\ f.kind = "Field"
                      /\ Declared(RootKey(query_doc[i]), f.name)
                      /\ \E s \in SelectionsIn(f.items) : UnknownSpread(query_doc, s)
    /\ Cardinality(result.coordinates) = 2

====
